---- MODULE Spec2Model ----
(***************************************************************************)
(* Model of src/bot.py: the Monkey Shop Telegram bot.                      *)
(*                                                                         *)
(* A text is a sequence of symbols (one-character strings for numeric      *)
(* input, one symbol per word or button label otherwise).  Python's None   *)
(* (message.text of a message that carries no text) is the text NoneText.  *)
(* Labels are transliterated to ASCII.                                     *)
(***************************************************************************)
EXTENDS Integers, Sequences, FiniteSets, TLC

\* ------------------------------------------------------------------ bounds
MaxUser == 2          \* user ids are 1..MaxUser
MaxTasks == 2         \* update-handling tasks suspended at an await at once
MaxAdded == 1         \* products inserted by the wizard

\* --------------------------------------------------------------- constants
\* ADMIN_ID is read from the environment; the model takes the lowest user id
ADMIN_ID == 1

UserIds == 1..MaxUser
TaskIds == 1..MaxTasks

\* ------------------------------------------------------------------- texts
NoneText == <<"<None>">>

CMD_START == <<"/start">>
CMD_ADMIN == <<"/admin">>
BTN_BUY == <<"Kupit tovar">>
BTN_PROFILE == <<"Profil">>
BTN_ABOUT == <<"O nas">>
BTN_STATS == <<"Statistika">>
BTN_MAILING == <<"Rassylka">>
BTN_ADD_PRODUCT == <<"Dobavlenie tovarov">>
BTN_CHANGE_POLICY == <<"Izmenenie ssylki na politiku">>
BTN_EXIT == <<"Vyiti iz adminki">>

DEFAULT_POLICY == <<"https://example.com/privacy">>

\* categories as init_categories inserts them into an empty table: (id, name, emoji)
Categories ==
  << [id |-> 1, name |-> <<"Telegram", " ", "akkaunty">>, emoji |-> "e:phone"],
     [id |-> 2, name |-> <<"Telegram", " ", "kanaly">>, emoji |-> "e:speech"],
     [id |-> 3, name |-> <<"Telegram", " ", "gruppy">>, emoji |-> "e:people"],
     [id |-> 4, name |-> <<"Telegram", " ", "boty">>, emoji |-> "e:robot"],
     [id |-> 5, name |-> <<"Domeny", " ", "dlya", " ", "saitov">>, emoji |-> "e:globe"] >>

\* the rows add_test_products inserts into an empty products table
TestProducts ==
  << [id |-> 1, category_id |-> 1, name |-> <<"Akkaunt USA (5 sht.)">>,
      description |-> <<"Akkaunt SShA, otlichnoe kachestvo">>, price |-> 100, quantity |-> 10],
     [id |-> 2, category_id |-> 1, name |-> <<"Akkaunt RU (2 sht.)">>,
      description |-> <<"Akkaunt Rossiya, premium kachestvo">>, price |-> 150, quantity |-> 5] >>

\* ------------------------------------------------ database initialisation
VARIABLE categories   \* table categories, in rowid order

\* INSERT INTO categories (name, emoji): name is UNIQUE, the IntegrityError
\* of a name that exists is passed over
InsertCategory(table, name, emoji) ==
  IF \E i \in DOMAIN table : table[i].name = name THEN table
  ELSE Append(table, [id |-> Len(table) + 1, name |-> name, emoji |-> emoji])

\* Database.init_categories: the five inserts, in order
RECURSIVE InsertCategories(_, _)
InsertCategories(table, i) ==
  IF i > Len(Categories) THEN table
  ELSE InsertCategories(InsertCategory(table, Categories[i].name, Categories[i].emoji), i + 1)

init_categories(table) == InsertCategories(table, 1)

\* the settings table without a row of key privacy_policy
NoSetting == <<"<no row>">>

\* init_settings written with INSERT OR REPLACE
init_settings_Replace(value) == DEFAULT_POLICY

\* Database.init_settings: INSERT OR IGNORE of the default link
init_settings(value) == IF value = NoSetting THEN DEFAULT_POLICY ELSE value

\* Database.add_test_products: the two rows, if the table has no row
add_test_products(table) == IF Len(table) = 0 THEN TestProducts ELSE table

\* ---------------------------------------------------------- pure functions
IsSpace(c) == c = " "

RECURSIVE LStrip(_)
LStrip(s) == IF s # <<>> /\ IsSpace(Head(s)) THEN LStrip(Tail(s)) ELSE s

RECURSIVE RStrip(_)
RStrip(s) ==
  IF s # <<>> /\ IsSpace(s[Len(s)]) THEN RStrip(SubSeq(s, 1, Len(s) - 1)) ELSE s

\* str.strip()
Strip(s) == RStrip(LStrip(s))

DigitVal(c) ==
  CASE c = "0" -> 0 [] c = "1" -> 1 [] c = "2" -> 2 [] c = "3" -> 3 [] c = "4" -> 4
    [] c = "5" -> 5 [] c = "6" -> 6 [] c = "7" -> 7 [] c = "8" -> 8 [] c = "9" -> 9
    [] OTHER -> -1

IsDigit(c) == DigitVal(c) >= 0

\* digits with single underscores between them, as int() accepts them
RECURSIVE DigitsOk(_, _)
DigitsOk(s, prevDigit) ==
  IF s = <<>> THEN prevDigit
  ELSE IF IsDigit(Head(s)) THEN DigitsOk(Tail(s), TRUE)
  ELSE IF Head(s) = "_" THEN prevDigit /\ DigitsOk(Tail(s), FALSE)
  ELSE FALSE

RECURSIVE DigitsVal(_, _)
DigitsVal(s, acc) ==
  IF s = <<>> THEN acc
  ELSE IF Head(s) = "_" THEN DigitsVal(Tail(s), acc)
  ELSE DigitsVal(Tail(s), acc * 10 + DigitVal(Head(s)))

\* int(message.text): [ok |-> FALSE] stands for the TypeError (None) or
\* ValueError (not a decimal literal) that int() raises
ParseInt(text) ==
  IF text = NoneText THEN [ok |-> FALSE, val |-> 0]
  ELSE LET s == Strip(text)
           signed == s # <<>> /\ Head(s) \in {"+", "-"}
           body == IF signed THEN Tail(s) ELSE s
       IN IF body # <<>> /\ DigitsOk(body, FALSE)
          THEN [ok |-> TRUE,
                val |-> IF signed /\ Head(s) = "-" THEN 0 - DigitsVal(body, 0)
                        ELSE DigitsVal(body, 0)]
          ELSE [ok |-> FALSE, val |-> 0]

\* str.replace(emoji, "")
RECURSIVE RemoveSym(_, _)
RemoveSym(s, e) ==
  IF s = <<>> THEN <<>>
  ELSE IF Head(s) = e THEN RemoveSym(Tail(s), e)
  ELSE <<Head(s)>> \o RemoveSym(Tail(s), e)

EmojiOrder == <<"e:phone", "e:speech", "e:people", "e:robot", "e:globe">>

\* the loop of process_product_category: replace then strip, per emoji
RECURSIVE StripEmojis(_, _)
StripEmojis(s, i) ==
  IF i > Len(EmojiOrder) THEN s
  ELSE StripEmojis(Strip(RemoveSym(s, EmojiOrder[i])), i + 1)

\* SQL LIKE: "%" matches any run of symbols, "_" any one symbol
RECURSIVE Like(_, _)
Like(pat, s) ==
  IF pat = <<>> THEN s = <<>>
  ELSE IF Head(pat) = "%"
       THEN Like(Tail(pat), s) \/ (s # <<>> /\ Like(pat, Tail(s)))
  ELSE s # <<>> /\ (Head(pat) = "_" \/ Head(pat) = Head(s)) /\ Like(Tail(pat), Tail(s))

\* SELECT id FROM categories WHERE name LIKE '%<name>%' ; fetchone()
\* 0 stands for "no row"
FindCategory(category_name) ==
  LET hits == {i \in 1..Len(categories) :
                 Like(<<"%">> \o category_name \o <<"%">>, categories[i].name)}
  IN IF hits = {} THEN 0
     ELSE categories[CHOOSE i \in hits : \A j \in hits : i <= j].id

\* --------------------------------------------------------------- FSM state
\* aiogram's state names; StateNone is the initial state (no state set)
StateNone == "None"
ST_category == "AddProductStates:category"
ST_name == "AddProductStates:name"
ST_description == "AddProductStates:description"
ST_price == "AddProductStates:price"
ST_quantity == "AddProductStates:quantity"
ST_mailing == "MailingStates:text"
ST_new_link == "ChangePolicyStates:new_link"

AddProductStates == {ST_category, ST_name, ST_description, ST_price, ST_quantity}
MailingStates == {ST_mailing}
ChangePolicyStates == {ST_new_link}
WorkingStates == AddProductStates \cup MailingStates \cup ChangePolicyStates
AllStates == {StateNone} \cup WorkingStates

AddProductKeys == {"category_id", "name", "description", "price"}

VARIABLES
  state,      \* MemoryStorage: FSM state of each user's conversation
  data,       \* MemoryStorage: FSM data of each user's conversation
  users,      \* table users: user_id -> username recorded at registration
  products,   \* table products, in rowid order
  settings,   \* table settings: the value of key privacy_policy
  tasks,      \* the handler calls suspended at an await (one asyncio task each)
  view,       \* the message with inline buttons each user's chat shows
  last        \* the step taken last: who, by which handler, what it answered

vars == <<state, data, users, products, settings, tasks, view, categories, last>>

EmptyData == <<>>

\* FSMContext.update_data(key=value)
UpdateData(d, key, value) ==
  [k \in (DOMAIN d) \cup {key} |-> IF k = key THEN value ELSE d[k]]

\* Database.get_all_users: SELECT user_id FROM users (rowid order)
RECURSIVE SortedIds(_)
SortedIds(S) ==
  IF S = {} THEN <<>>
  ELSE LET m == CHOOSE x \in S : \A y \in S : x <= y
       IN <<m>> \o SortedIds(S \ {m})

get_all_users == SortedIds(DOMAIN users)

IdleTask ==
  [pc |-> "idle", user |-> 0, text |-> <<>>, users |-> <<>>, i |-> 0,
   success |-> 0, failed |-> 0, attempts |-> <<>>, slept |-> FALSE]

\* A message with inline buttons: its text, its keyboard (markup) and the
\* product ids the keyboard lists (items).  cat is the category of the product
\* list the message showed last and pid the product it showed last; the
\* program keeps neither once the message is edited.
NoView == [text |-> "-", markup |-> "-", cat |-> 0, pid |-> 0, items |-> <<>>]

NoReply == [text |-> "-", markup |-> "-"]
Reply(t, m) == [text |-> t, markup |-> m]

Init ==
  /\ state = [u \in UserIds |-> StateNone]
  /\ data = [u \in UserIds |-> EmptyData]
  /\ users = <<>>
  /\ products = TestProducts
  /\ settings = DEFAULT_POLICY
  /\ tasks = [t \in TaskIds |-> IdleTask]
  /\ view = [u \in UserIds |-> NoView]
  /\ categories = init_categories(<<>>)
  /\ last = [user |-> 0, text |-> <<>>, handler |-> "-", step |-> "-",
             reply |-> NoReply, raised |-> FALSE]

\* ------------------------------------------------------------ dispatching
\* Command filter: the text starts with the command
IsCommand(text, cmd) == text # NoneText /\ text # <<>> /\ Head(text) = cmd

\* Route with the state filter of process_new_policy left out: the handler
\* then takes every update that reaches it, whatever the state
Route_NoStateFilter(st, text) ==
  IF IsCommand(text, "/start") THEN "cmd_start"
  ELSE IF IsCommand(text, "/admin") THEN "cmd_admin"
  ELSE IF text = BTN_BUY THEN "buy_product"
  ELSE IF text = BTN_PROFILE THEN "profile"
  ELSE IF text = BTN_ABOUT THEN "about"
  ELSE IF text = BTN_STATS THEN "admin_stats"
  ELSE IF text = BTN_MAILING THEN "admin_mailing"
  ELSE IF st = ST_mailing THEN "process_mailing"
  ELSE IF text = BTN_ADD_PRODUCT THEN "admin_add_product"
  ELSE IF st = ST_category THEN "process_product_category"
  ELSE IF st = ST_name THEN "process_product_name"
  ELSE IF st = ST_description THEN "process_product_description"
  ELSE IF st = ST_price THEN "process_product_price"
  ELSE IF st = ST_quantity THEN "process_product_quantity"
  ELSE IF text = BTN_CHANGE_POLICY THEN "admin_change_policy"
  ELSE "process_new_policy"

\* The handlers of dp.message in registration order; the first whose filter
\* matches handles the update.  A handler registered without a state filter
\* matches in every state.
Route(st, text) ==
  IF IsCommand(text, "/start") THEN "cmd_start"
  ELSE IF IsCommand(text, "/admin") THEN "cmd_admin"
  ELSE IF text = BTN_BUY THEN "buy_product"
  ELSE IF text = BTN_PROFILE THEN "profile"
  ELSE IF text = BTN_ABOUT THEN "about"
  ELSE IF text = BTN_STATS THEN "admin_stats"
  ELSE IF text = BTN_MAILING THEN "admin_mailing"
  ELSE IF st = ST_mailing THEN "process_mailing"
  ELSE IF text = BTN_ADD_PRODUCT THEN "admin_add_product"
  ELSE IF st = ST_category THEN "process_product_category"
  ELSE IF st = ST_name THEN "process_product_name"
  ELSE IF st = ST_description THEN "process_product_description"
  ELSE IF st = ST_price THEN "process_product_price"
  ELSE IF st = ST_quantity THEN "process_product_quantity"
  ELSE IF text = BTN_CHANGE_POLICY THEN "admin_change_policy"
  ELSE IF st = ST_new_link THEN "process_new_policy"
  ELSE IF text = BTN_EXIT THEN "admin_exit"
  ELSE "UNHANDLED"

\* bookkeeping: the update, the handler that ran, the message.answer it called
\* last and whether the handler ended by an exception
Handled(u, text, h, r, raised) ==
  last' = [user |-> u, text |-> text, handler |-> h, step |-> "handle",
           reply |-> r, raised |-> raised]

\* set_state on a storage that keeps one state for all conversations
SetState_Shared(u, st) == state' = [x \in UserIds |-> st]

\* FSMContext.set_state / FSMContext.clear of user u's conversation
SetState(u, st) == state' = [state EXCEPT ![u] = st]
Clear(u) ==
  /\ state' = [state EXCEPT ![u] = StateNone]
  /\ data' = [data EXCEPT ![u] = EmptyData]

\* --------------------------------------------------------------- handlers
\* Every handler takes the sender u, the message text and ok: whether the
\* message.answer call it makes returns (TRUE) or raises (FALSE).  A handler
\* of this section other than process_mailing is one step: its answer returns
\* or raises before anything else happens (the wizard handlers suspended at
\* their answer come further down).  Conversations are private chats, one per
\* user.

\* add_user written with INSERT OR REPLACE
add_user_Replace(u, username) ==
  [x \in (DOMAIN users) \cup {u} |-> IF x = u THEN username ELSE users[x]]

\* Database.add_user: INSERT OR IGNORE
add_user(u, username) ==
  IF u \in DOMAIN users THEN users
  ELSE [x \in (DOMAIN users) \cup {u} |-> IF x = u THEN username ELSE users[x]]

cmd_start(u, text, username, ok) ==
  /\ Route(state[u], text) = "cmd_start"
  /\ users' = add_user(u, username)
  /\ Handled(u, text, "cmd_start", Reply("welcome", "main"), ~ok)
  /\ UNCHANGED <<state, data, products, settings, tasks, view, categories>>

cmd_admin(u, text, ok) ==
  /\ Route(state[u], text) = "cmd_admin"
  /\ IF u # ADMIN_ID
     THEN Handled(u, text, "cmd_admin", Reply("no_access", "-"), ~ok)
     ELSE Handled(u, text, "cmd_admin", Reply("admin_welcome", "admin"), ~ok)
  /\ UNCHANGED <<state, data, users, products, settings, tasks, view, categories>>

\* message.answer sends a new message carrying get_categories_inline()
buy_product(u, text, ok) ==
  /\ Route(state[u], text) = "buy_product"
  /\ Handled(u, text, "buy_product", Reply("choose_category", "categories"), ~ok)
  /\ view' = IF ok THEN [view EXCEPT ![u] = [NoView EXCEPT !.text = "choose_category",
                                                          !.markup = "categories"]]
             ELSE view
  /\ UNCHANGED <<state, data, users, products, settings, tasks, categories>>

profile(u, text, ok) ==
  /\ Route(state[u], text) = "profile"
  /\ Handled(u, text, "profile", Reply("profile", "-"), ~ok)
  /\ UNCHANGED <<state, data, users, products, settings, tasks, view, categories>>

about(u, text, ok) ==
  /\ Route(state[u], text) = "about"
  /\ Handled(u, text, "about", Reply("about", "policy_link"), ~ok)
  /\ UNCHANGED <<state, data, users, products, settings, tasks, view, categories>>

admin_stats(u, text, ok) ==
  /\ Route(state[u], text) = "admin_stats"
  /\ IF u # ADMIN_ID
     THEN Handled(u, text, "admin_stats", NoReply, FALSE)
     ELSE Handled(u, text, "admin_stats", Reply("stats", "-"), ~ok)
  /\ UNCHANGED <<state, data, users, products, settings, tasks, view, categories>>

\* admin_mailing without its check of the sender
admin_mailing_AnyUser(u, text, ok) ==
  /\ Route(state[u], text) = "admin_mailing"
  /\ Handled(u, text, "admin_mailing", Reply("mailing_prompt", "-"), ~ok)
  /\ IF ok THEN SetState(u, ST_mailing) ELSE UNCHANGED state
  /\ UNCHANGED <<data, users, products, settings, tasks, view, categories>>

admin_mailing(u, text, ok) ==
  /\ Route(state[u], text) = "admin_mailing"
  /\ IF u # ADMIN_ID
     THEN Handled(u, text, "admin_mailing", NoReply, FALSE) /\ UNCHANGED state
     ELSE /\ Handled(u, text, "admin_mailing", Reply("mailing_prompt", "-"), ~ok)
          /\ IF ok THEN SetState(u, ST_mailing) ELSE UNCHANGED state
  /\ UNCHANGED <<data, users, products, settings, tasks, view, categories>>

admin_add_product(u, text, ok) ==
  /\ Route(state[u], text) = "admin_add_product"
  /\ IF u # ADMIN_ID
     THEN Handled(u, text, "admin_add_product", NoReply, FALSE) /\ UNCHANGED state
     ELSE /\ Handled(u, text, "admin_add_product", Reply("prompt_category", "-"), ~ok)
          /\ IF ok THEN SetState(u, ST_category) ELSE UNCHANGED state
  /\ UNCHANGED <<data, users, products, settings, tasks, view, categories>>

process_product_category(u, text, ok) ==
  /\ Route(state[u], text) = "process_product_category"
  /\ IF u # ADMIN_ID
     THEN Handled(u, text, "process_product_category", NoReply, FALSE) /\ UNCHANGED <<state, data>>
     ELSE IF text = NoneText
     THEN \* None.replace: AttributeError
          Handled(u, text, "process_product_category", NoReply, TRUE) /\ UNCHANGED <<state, data>>
     ELSE LET category == FindCategory(StripEmojis(text, 1))
          IN IF category = 0
             THEN /\ Handled(u, text, "process_product_category", Reply("category_not_found", "-"), ~ok)
                  /\ UNCHANGED <<state, data>>
             ELSE /\ data' = [data EXCEPT ![u] = UpdateData(@, "category_id", category)]
                  /\ Handled(u, text, "process_product_category", Reply("prompt_name", "-"), ~ok)
                  /\ IF ok THEN SetState(u, ST_name) ELSE UNCHANGED state
  /\ UNCHANGED <<users, products, settings, tasks, view, categories>>

process_product_name(u, text, ok) ==
  /\ Route(state[u], text) = "process_product_name"
  /\ IF u # ADMIN_ID
     THEN Handled(u, text, "process_product_name", NoReply, FALSE) /\ UNCHANGED <<state, data>>
     ELSE /\ data' = [data EXCEPT ![u] = UpdateData(@, "name", text)]
          /\ Handled(u, text, "process_product_name", Reply("prompt_description", "-"), ~ok)
          /\ IF ok THEN SetState(u, ST_description) ELSE UNCHANGED state
  /\ UNCHANGED <<users, products, settings, tasks, view, categories>>

process_product_description(u, text, ok) ==
  /\ Route(state[u], text) = "process_product_description"
  /\ IF u # ADMIN_ID
     THEN Handled(u, text, "process_product_description", NoReply, FALSE) /\ UNCHANGED <<state, data>>
     ELSE /\ data' = [data EXCEPT ![u] = UpdateData(@, "description", text)]
          /\ Handled(u, text, "process_product_description", Reply("prompt_price", "-"), ~ok)
          /\ IF ok THEN SetState(u, ST_price) ELSE UNCHANGED state
  /\ UNCHANGED <<users, products, settings, tasks, view, categories>>

\* the check written price < 0
PriceAccepted_ZeroPasses(text) == ParseInt(text).ok /\ ~(ParseInt(text).val < 0)

\* try: price = int(text); if price <= 0: raise ValueError / except: reject
PriceAccepted(text) == ParseInt(text).ok /\ ~(ParseInt(text).val <= 0)

process_product_price(u, text, ok) ==
  /\ Route(state[u], text) = "process_product_price"
  /\ IF u # ADMIN_ID
     THEN Handled(u, text, "process_product_price", NoReply, FALSE) /\ UNCHANGED <<state, data>>
     ELSE IF ~PriceAccepted(text)
     THEN /\ Handled(u, text, "process_product_price", Reply("price_invalid", "-"), ~ok)
          /\ UNCHANGED <<state, data>>
     ELSE /\ data' = [data EXCEPT ![u] = UpdateData(@, "price", ParseInt(text).val)]
          /\ Handled(u, text, "process_product_price", Reply("prompt_quantity", "-"), ~ok)
          /\ IF ok THEN SetState(u, ST_quantity) ELSE UNCHANGED state
  /\ UNCHANGED <<users, products, settings, tasks, view, categories>>

\* the check of the quantity left out: any integer passes
QuantityAccepted_AnyInteger(text) == ParseInt(text).ok

\* try: quantity = int(text); if quantity < 0: raise ValueError / except: reject
QuantityAccepted(text) == ParseInt(text).ok /\ ~(ParseInt(text).val < 0)

\* Database.add_product: INSERT; the new row gets the next rowid
add_product(category_id, name, description, price, quantity) ==
  Append(products,
         [id |-> Len(products) + 1, category_id |-> category_id, name |-> name,
          description |-> description, price |-> price, quantity |-> quantity])

process_product_quantity(u, text, ok) ==
  /\ Route(state[u], text) = "process_product_quantity"
  /\ IF u # ADMIN_ID
     THEN /\ Handled(u, text, "process_product_quantity", NoReply, FALSE)
          /\ UNCHANGED <<state, data, products>>
     ELSE IF ~QuantityAccepted(text)
     THEN /\ Handled(u, text, "process_product_quantity", Reply("quantity_invalid", "-"), ~ok)
          /\ UNCHANGED <<state, data, products>>
     ELSE IF ~(AddProductKeys \subseteq DOMAIN data[u])
     THEN \* data['...']: KeyError
          /\ Handled(u, text, "process_product_quantity", NoReply, TRUE)
          /\ UNCHANGED <<state, data, products>>
     ELSE /\ Len(products) < Len(TestProducts) + MaxAdded
          /\ products' = add_product(data[u]["category_id"], data[u]["name"],
                                     data[u]["description"], data[u]["price"],
                                     ParseInt(text).val)
          /\ Handled(u, text, "process_product_quantity", Reply("product_added", "-"), ~ok)
          /\ IF ok THEN Clear(u) ELSE UNCHANGED <<state, data>>
  /\ UNCHANGED <<users, settings, tasks, view, categories>>

admin_change_policy(u, text, ok) ==
  /\ Route(state[u], text) = "admin_change_policy"
  /\ IF u # ADMIN_ID
     THEN Handled(u, text, "admin_change_policy", NoReply, FALSE) /\ UNCHANGED state
     ELSE /\ Handled(u, text, "admin_change_policy", Reply("policy_prompt", "-"), ~ok)
          /\ IF ok THEN SetState(u, ST_new_link) ELSE UNCHANGED state
  /\ UNCHANGED <<data, users, products, settings, tasks, view, categories>>

process_new_policy(u, text, ok) ==
  /\ Route(state[u], text) = "process_new_policy"
  /\ IF u # ADMIN_ID
     THEN /\ Handled(u, text, "process_new_policy", NoReply, FALSE)
          /\ UNCHANGED <<state, data, settings>>
     ELSE /\ settings' = text
          /\ Handled(u, text, "process_new_policy", Reply("policy_updated", "-"), ~ok)
          /\ IF ok THEN Clear(u) ELSE UNCHANGED <<state, data>>
  /\ UNCHANGED <<users, products, tasks, view, categories>>

admin_exit(u, text, ok) ==
  /\ Route(state[u], text) = "admin_exit"
  /\ IF u # ADMIN_ID
     THEN Handled(u, text, "admin_exit", NoReply, FALSE)
     ELSE Handled(u, text, "admin_exit", Reply("admin_exit", "main"), ~ok)
  /\ UNCHANGED <<state, data, users, products, settings, tasks, view, categories>>

\* no handler matches: the dispatcher drops the update
unhandled(u, text) ==
  /\ Route(state[u], text) = "UNHANDLED"
  /\ Handled(u, text, "UNHANDLED", NoReply, FALSE)
  /\ UNCHANGED <<state, data, users, products, settings, tasks, view, categories>>

\* -------------------------------------------------------------- callbacks
\* Callback data is a sequence of symbols: "category_4" is
\* <<"category", "_", "4">>.  The handlers of dp.callback_query carry no state
\* filter.  A callback edits the message its button belongs to; ok says
\* whether edit_text returns (TRUE) or raises (FALSE), as it does for a
\* message that the edit would not modify.
CB_BACK_TO_CATEGORIES == <<"back", "_", "to", "_", "categories">>
CB_BACK_TO_PRODUCTS == <<"back", "_", "to", "_", "products">>

\* F.data.startswith(prefix + "_")
StartsWith(d, prefix) == Len(d) >= 2 /\ d[1] = prefix /\ d[2] = "_"

RECURSIVE TakeUntil(_, _)
TakeUntil(s, c) ==
  IF s = <<>> \/ Head(s) = c THEN <<>> ELSE <<Head(s)>> \o TakeUntil(Tail(s), c)

RECURSIVE DropThrough(_, _)
DropThrough(s, c) ==
  IF s = <<>> THEN <<>> ELSE IF Head(s) = c THEN Tail(s) ELSE DropThrough(Tail(s), c)

\* callback.data.split("_")[1]
Split1(d) == TakeUntil(DropThrough(d, "_"), "_")

\* the handlers of dp.callback_query in registration order
RouteCallback(d) ==
  IF StartsWith(d, "category") THEN "show_products"
  ELSE IF StartsWith(d, "product") THEN "show_product"
  ELSE IF StartsWith(d, "buy") THEN "buy_product_action"
  ELSE IF d = CB_BACK_TO_CATEGORIES THEN "back_to_categories"
  ELSE IF d = CB_BACK_TO_PRODUCTS THEN "back_to_products"
  ELSE "UNHANDLED"

\* Database.get_products_by_category: the ids of the rows with
\* category_id = ? AND quantity > 0, in rowid order
RECURSIVE ProductsFrom(_, _)
ProductsFrom(i, category_id) ==
  IF i > Len(products) THEN <<>>
  ELSE IF products[i].category_id = category_id /\ products[i].quantity > 0
       THEN <<products[i].id>> \o ProductsFrom(i + 1, category_id)
       ELSE ProductsFrom(i + 1, category_id)

\* the query without its condition on the quantity
get_products_by_category_AnyQuantity(category_id) ==
  [k \in 1..Cardinality({i \in DOMAIN products : products[i].category_id = category_id}) |->
     products[CHOOSE i \in DOMAIN products :
       /\ products[i].category_id = category_id
       /\ Cardinality({j \in 1..i : products[j].category_id = category_id}) = k].id]

get_products_by_category(category_id) == ProductsFrom(1, category_id)

\* Database.get_product: whether SELECT ... WHERE id = ? finds a row
get_product(product_id) == \E i \in DOMAIN products : products[i].id = product_id

\* the user's chat holds a message of the bot that carries or carried buttons
HasMessage(u) == view[u].text # "-"

Called(u, d, h, r, raised) ==
  last' = [user |-> u, text |-> d, handler |-> h, step |-> "callback",
           reply |-> r, raised |-> raised]

\* callback.message.edit_text(text, reply_markup) on the user's message
EditText(u, ok, new) == view' = IF ok THEN [view EXCEPT ![u] = new] ELSE view

show_products(u, d, ok) ==
  /\ HasMessage(u)
  /\ RouteCallback(d) = "show_products"
  /\ LET category_id == ParseInt(Split1(d))
     IN IF ~category_id.ok
        THEN \* int(): ValueError
             Called(u, d, "show_products", NoReply, TRUE) /\ UNCHANGED view
        ELSE /\ Called(u, d, "show_products", Reply("choose_product", "products"), ~ok)
             /\ EditText(u, ok, [text |-> "choose_product", markup |-> "products",
                                 cat |-> category_id.val, pid |-> 0,
                                 items |-> get_products_by_category(category_id.val)])
  /\ UNCHANGED <<state, data, users, products, settings, tasks, categories>>

show_product(u, d, ok) ==
  /\ HasMessage(u)
  /\ RouteCallback(d) = "show_product"
  /\ LET product_id == ParseInt(Split1(d))
     IN IF ~product_id.ok
        THEN Called(u, d, "show_product", NoReply, TRUE) /\ UNCHANGED view
        ELSE IF ~get_product(product_id.val)
        THEN /\ Called(u, d, "show_product", Reply("not_found", "-"), ~ok)
             /\ EditText(u, ok, [text |-> "not_found", markup |-> "-", cat |-> view[u].cat,
                                 pid |-> 0, items |-> <<>>])
        ELSE /\ Called(u, d, "show_product", Reply("detail", "actions"), ~ok)
             /\ EditText(u, ok, [text |-> "detail", markup |-> "actions", cat |-> view[u].cat,
                                 pid |-> product_id.val, items |-> <<>>])
  /\ UNCHANGED <<state, data, users, products, settings, tasks, categories>>

\* buy_product_action with a purchase that takes one unit off the stock
buy_product_action_TakesUnit(u, d, ok) ==
  /\ HasMessage(u)
  /\ RouteCallback(d) = "buy_product_action"
  /\ LET product_id == ParseInt(Split1(d))
     IN IF ~product_id.ok
        THEN Called(u, d, "buy_product_action", NoReply, TRUE) /\ UNCHANGED <<view, products>>
        ELSE IF ~get_product(product_id.val)
        THEN /\ Called(u, d, "buy_product_action", Reply("not_found", "-"), ~ok)
             /\ EditText(u, ok, [text |-> "not_found", markup |-> "-", cat |-> 0,
                                 pid |-> 0, items |-> <<>>])
             /\ UNCHANGED products
        ELSE /\ Called(u, d, "buy_product_action", Reply("contact_support", "-"), ~ok)
             /\ EditText(u, ok, [text |-> "contact_support", markup |-> "-", cat |-> 0,
                                 pid |-> product_id.val, items |-> <<>>])
             /\ products' = [products EXCEPT ![product_id.val].quantity =
                               IF @ > 0 THEN @ - 1 ELSE @]
  /\ UNCHANGED <<state, data, users, settings, tasks, categories>>

buy_product_action(u, d, ok) ==
  /\ HasMessage(u)
  /\ RouteCallback(d) = "buy_product_action"
  /\ LET product_id == ParseInt(Split1(d))
     IN IF ~product_id.ok
        THEN Called(u, d, "buy_product_action", NoReply, TRUE) /\ UNCHANGED view
        ELSE IF ~get_product(product_id.val)
        THEN /\ Called(u, d, "buy_product_action", Reply("not_found", "-"), ~ok)
             /\ EditText(u, ok, [text |-> "not_found", markup |-> "-", cat |-> 0,
                                 pid |-> 0, items |-> <<>>])
        ELSE /\ Called(u, d, "buy_product_action", Reply("contact_support", "-"), ~ok)
             /\ EditText(u, ok, [text |-> "contact_support", markup |-> "-", cat |-> 0,
                                 pid |-> product_id.val, items |-> <<>>])
  /\ UNCHANGED <<state, data, users, products, settings, tasks, categories>>

back_to_categories(u, d, ok) ==
  /\ HasMessage(u)
  /\ RouteCallback(d) = "back_to_categories"
  /\ Called(u, d, "back_to_categories", Reply("choose_category", "categories"), ~ok)
  /\ EditText(u, ok, [NoView EXCEPT !.text = "choose_category", !.markup = "categories"])
  /\ UNCHANGED <<state, data, users, products, settings, tasks, categories>>

\* back_to_products that goes back to the list the product was opened from
back_to_products_Restores(u, d, ok) ==
  /\ HasMessage(u)
  /\ RouteCallback(d) = "back_to_products"
  /\ Called(u, d, "back_to_products", Reply("choose_product", "products"), ~ok)
  /\ EditText(u, ok, [text |-> "choose_product", markup |-> "products",
                      cat |-> view[u].cat, pid |-> 0,
                      items |-> get_products_by_category(view[u].cat)])
  /\ UNCHANGED <<state, data, users, products, settings, tasks, categories>>

\* the text of the product list over get_categories_inline()
back_to_products(u, d, ok) ==
  /\ HasMessage(u)
  /\ RouteCallback(d) = "back_to_products"
  /\ Called(u, d, "back_to_products", Reply("choose_product", "categories"), ~ok)
  /\ EditText(u, ok, [view[u] EXCEPT !.text = "choose_product", !.markup = "categories",
                                      !.items = <<>>])
  /\ UNCHANGED <<state, data, users, products, settings, tasks, categories>>

\* no callback handler matches: the dispatcher drops the query
unhandled_callback(u, d) ==
  /\ HasMessage(u)
  /\ RouteCallback(d) = "UNHANDLED"
  /\ Called(u, d, "UNHANDLED", NoReply, FALSE)
  /\ UNCHANGED <<state, data, users, products, settings, tasks, view, categories>>

\* ---------------------------------------------------------------- buttons
\* str(n) of an id, one symbol per digit
DigitSym == <<"0", "1", "2", "3", "4", "5", "6", "7", "8", "9">>

RECURSIVE IdText(_)
IdText(n) ==
  IF n < 10 THEN <<DigitSym[n + 1]>> ELSE IdText(n \div 10) \o <<DigitSym[(n % 10) + 1]>>

\* the callback data of the buttons the message shows: those of
\* get_categories_inline(), get_products_inline() or
\* get_product_actions_inline() as called when the message was written
Buttons(v) ==
  CASE v.markup = "categories" ->
         {<<"category", "_">> \o IdText(categories[i].id) : i \in DOMAIN categories}
    [] v.markup = "products" ->
         {<<"product", "_">> \o IdText(v.items[k]) : k \in DOMAIN v.items}
           \cup {CB_BACK_TO_CATEGORIES}
    [] v.markup = "actions" ->
         {<<"buy", "_">> \o IdText(v.pid), CB_BACK_TO_PRODUCTS}
    [] OTHER -> {}

\* the user presses a button of the message
Pressed(u, d) == d \in Buttons(view[u])

\* ------------------------------------------------------- process_mailing
\* The dispatcher handles every update in an asyncio task of its own, so a
\* process_mailing call suspended at an await does not keep the next update
\* of the same user from being handled.  A task is at pc:
\*   "announce"  awaiting message.answer("Nachinayu rassylku ...")
\*   "send"      awaiting bot.send_message(users[i], text)
\*   "sleep"     awaiting asyncio.sleep(0.05)
\*   "report"    awaiting message.answer("Rassylka zavershena ...")
\*   "done"      returned;  "failed"  ended by an exception
TaskFree(t) == tasks[t].pc \in {"idle", "done", "failed"}
InFlight(t) == ~TaskFree(t)

Stepped(t, step, r, raised) ==
  last' = [user |-> tasks[t].user, text |-> tasks[t].text,
           handler |-> "process_mailing", step |-> step, reply |-> r, raised |-> raised]

\* where the for loop goes after the attempt at users[i]
AfterAttempt(task) == IF task.i < Len(task.users) THEN "send" ELSE "report"

\* the handler up to its first await: text and the user list are read here
process_mailing(u, text) ==
  /\ Route(state[u], text) = "process_mailing"
  /\ IF u # ADMIN_ID
     THEN Handled(u, text, "process_mailing", NoReply, FALSE) /\ UNCHANGED tasks
     ELSE /\ \E t \in TaskIds : TaskFree(t)
          /\ LET t == CHOOSE x \in TaskIds : TaskFree(x) /\ \A y \in TaskIds : TaskFree(y) => x <= y
             IN /\ tasks' = [tasks EXCEPT ![t] =
                               [pc |-> "announce", user |-> u, text |-> text,
                                users |-> get_all_users, i |-> 0, success |-> 0,
                                failed |-> 0, attempts |-> <<>>, slept |-> FALSE]]
                /\ last' = [user |-> u, text |-> text, handler |-> "process_mailing",
                            step |-> "start", reply |-> Reply("mailing_started", "-"),
                            raised |-> FALSE]
  /\ UNCHANGED <<state, data, users, products, settings, view, categories>>

\* message.answer of the announcement returns or raises
mailing_announce(t, ok) ==
  /\ tasks[t].pc = "announce"
  /\ tasks' = [tasks EXCEPT ![t].pc = IF ~ok THEN "failed"
                                       ELSE IF Len(tasks[t].users) = 0 THEN "report"
                                       ELSE "send",
                            ![t].i = IF ok /\ Len(tasks[t].users) > 0 THEN 1 ELSE 0]
  /\ Stepped(t, "announce", Reply("mailing_started", "-"), ~ok)
  /\ UNCHANGED <<state, data, users, products, settings, view, categories>>

\* bot.send_message(text=None) raises before anything is sent
SendCanSucceed(task) == task.text # NoneText

\* the loop without its try/except: a failed send ends the handler
mailing_send_Abort(t, ok) ==
  /\ tasks[t].pc = "send"
  /\ ok => SendCanSucceed(tasks[t])
  /\ LET task == tasks[t]
         tried == [task EXCEPT !.attempts = Append(@, [to |-> task.users[task.i], ok |-> ok]),
                                  !.slept = FALSE]
     IN tasks' = [tasks EXCEPT ![t] =
                    IF ok THEN [tried EXCEPT !.success = @ + 1, !.pc = "sleep"]
                    ELSE [tried EXCEPT !.pc = "failed"]]
  /\ Stepped(t, "send", NoReply, ~ok)
  /\ UNCHANGED <<state, data, users, products, settings, view, categories>>

\* try: await bot.send_message(user_id, text); success += 1 / except: failed += 1
mailing_send(t, ok) ==
  /\ tasks[t].pc = "send"
  /\ ok => SendCanSucceed(tasks[t])
  /\ LET task == tasks[t]
         tried == [task EXCEPT !.attempts = Append(@, [to |-> task.users[task.i], ok |-> ok]),
                                  !.slept = FALSE]
     IN tasks' = [tasks EXCEPT ![t] =
                    IF ok THEN [tried EXCEPT !.success = @ + 1, !.pc = "sleep"]
                    ELSE [tried EXCEPT !.failed = @ + 1, !.pc = AfterAttempt(task),
                                       !.i = IF task.i < Len(task.users) THEN @ + 1 ELSE @]]
  /\ Stepped(t, "send", NoReply, FALSE)
  /\ UNCHANGED <<state, data, users, products, settings, view, categories>>

\* asyncio.sleep(0.05) returns (the task is not cancelled while it sleeps)
mailing_sleep(t) ==
  /\ tasks[t].pc = "sleep"
  /\ LET task == tasks[t]
     IN tasks' = [tasks EXCEPT ![t] =
                    [task EXCEPT !.slept = TRUE, !.pc = AfterAttempt(task),
                                 !.i = IF task.i < Len(task.users) THEN @ + 1 ELSE @]]
  /\ Stepped(t, "sleep", NoReply, FALSE)
  /\ UNCHANGED <<state, data, users, products, settings, view, categories>>

\* message.answer of the report returns, then state.clear(); or it raises
mailing_report(t, ok) ==
  /\ tasks[t].pc = "report"
  /\ tasks' = [tasks EXCEPT ![t].pc = IF ok THEN "done" ELSE "failed"]
  /\ Stepped(t, "report", Reply("mailing_done", "-"), ~ok)
  /\ IF ok THEN Clear(tasks[t].user) ELSE UNCHANGED <<state, data>>
  /\ UNCHANGED <<users, products, settings, view, categories>>

\* ------------------------------------------------- handlers at their await
\* A wizard handler writes its data (and, in the last step, the product row),
\* then awaits message.answer, then sets the state.  The dispatcher handles
\* the next update of the same conversation while the handler is suspended
\* at the await.  begin_<handler> is the handler up to the await, for the
\* input it accepts; the handler is then a task whose pc is its name, and
\* answer_returns is the rest of it.  The handlers above are the case of an
\* answer that returns before anything else happens.
WizardHandlers ==
  {"admin_add_product", "process_product_category", "process_product_name",
   "process_product_description", "process_product_price", "process_product_quantity"}

\* the state the handler sets after its answer
StateAfter(h) ==
  CASE h = "admin_add_product" -> ST_category
    [] h = "process_product_category" -> ST_name
    [] h = "process_product_name" -> ST_description
    [] h = "process_product_description" -> ST_price
    [] h = "process_product_price" -> ST_quantity
    [] OTHER -> StateNone

\* the answer the handler awaits
AnswerOf(h) ==
  CASE h = "admin_add_product" -> "prompt_category"
    [] h = "process_product_category" -> "prompt_name"
    [] h = "process_product_name" -> "prompt_description"
    [] h = "process_product_description" -> "prompt_price"
    [] h = "process_product_price" -> "prompt_quantity"
    [] OTHER -> "product_added"

\* the handler h, called for u's message text, is suspended at its answer
Suspend(u, text, h) ==
  /\ \E t \in TaskIds : TaskFree(t)
  /\ LET t == CHOOSE x \in TaskIds : TaskFree(x) /\ \A y \in TaskIds : TaskFree(y) => x <= y
     IN tasks' = [tasks EXCEPT ![t] = [IdleTask EXCEPT !.pc = h, !.user = u, !.text = text]]
  /\ last' = [user |-> u, text |-> text, handler |-> h, step |-> "start",
              reply |-> Reply(AnswerOf(h), "-"), raised |-> FALSE]

begin_admin_add_product(u, text) ==
  /\ Route(state[u], text) = "admin_add_product"
  /\ u = ADMIN_ID
  /\ Suspend(u, text, "admin_add_product")
  /\ UNCHANGED <<state, data, users, products, settings, view, categories>>

begin_process_product_category(u, text) ==
  /\ Route(state[u], text) = "process_product_category"
  /\ u = ADMIN_ID
  /\ text # NoneText
  /\ FindCategory(StripEmojis(text, 1)) # 0
  /\ data' = [data EXCEPT ![u] = UpdateData(@, "category_id", FindCategory(StripEmojis(text, 1)))]
  /\ Suspend(u, text, "process_product_category")
  /\ UNCHANGED <<state, users, products, settings, view, categories>>

begin_process_product_name(u, text) ==
  /\ Route(state[u], text) = "process_product_name"
  /\ u = ADMIN_ID
  /\ data' = [data EXCEPT ![u] = UpdateData(@, "name", text)]
  /\ Suspend(u, text, "process_product_name")
  /\ UNCHANGED <<state, users, products, settings, view, categories>>

begin_process_product_description(u, text) ==
  /\ Route(state[u], text) = "process_product_description"
  /\ u = ADMIN_ID
  /\ data' = [data EXCEPT ![u] = UpdateData(@, "description", text)]
  /\ Suspend(u, text, "process_product_description")
  /\ UNCHANGED <<state, users, products, settings, view, categories>>

begin_process_product_price(u, text) ==
  /\ Route(state[u], text) = "process_product_price"
  /\ u = ADMIN_ID
  /\ PriceAccepted(text)
  /\ data' = [data EXCEPT ![u] = UpdateData(@, "price", ParseInt(text).val)]
  /\ Suspend(u, text, "process_product_price")
  /\ UNCHANGED <<state, users, products, settings, view, categories>>

begin_process_product_quantity(u, text) ==
  /\ Route(state[u], text) = "process_product_quantity"
  /\ u = ADMIN_ID
  /\ QuantityAccepted(text)
  /\ AddProductKeys \subseteq DOMAIN data[u]
  /\ Len(products) < Len(TestProducts) + MaxAdded
  /\ products' = add_product(data[u]["category_id"], data[u]["name"],
                             data[u]["description"], data[u]["price"],
                             ParseInt(text).val)
  /\ Suspend(u, text, "process_product_quantity")
  /\ UNCHANGED <<state, data, users, settings, view, categories>>

\* message.answer of a suspended wizard handler returns, and the handler sets
\* the state (process_product_quantity: clears it); or it raises
answer_returns(t, ok) ==
  /\ tasks[t].pc \in WizardHandlers
  /\ tasks' = [tasks EXCEPT ![t].pc = IF ok THEN "done" ELSE "failed"]
  /\ last' = [user |-> tasks[t].user, text |-> tasks[t].text, handler |-> tasks[t].pc,
              step |-> "answer", reply |-> Reply(AnswerOf(tasks[t].pc), "-"),
              raised |-> ~ok]
  /\ IF ~ok THEN UNCHANGED <<state, data>>
     ELSE IF tasks[t].pc = "process_product_quantity" THEN Clear(tasks[t].user)
     ELSE SetState(tasks[t].user, StateAfter(tasks[t].pc)) /\ UNCHANGED data
  /\ UNCHANGED <<users, products, settings, view, categories>>

\* ---------------------------------------------------------------- restart
\* The process ends and is started again: Database() runs create_tables on
\* the database file that exists, MemoryStorage starts empty and the tasks of
\* the old process are gone.  The messages in the users' chats stay.
restart ==
  /\ categories' = init_categories(categories)
  /\ settings' = init_settings(settings)
  /\ products' = add_test_products(products)
  /\ state' = [u \in UserIds |-> StateNone]
  /\ data' = [u \in UserIds |-> EmptyData]
  /\ tasks' = [t \in TaskIds |-> IdleTask]
  /\ last' = [user |-> 0, text |-> <<>>, handler |-> "restart", step |-> "restart",
              reply |-> NoReply, raised |-> FALSE]
  /\ UNCHANGED <<users, view>>

\* --------------------------------------------------------- specifications
\* The program under ten environments, each a set of users and of texts
\* they send; every environment is closed under the handlers its texts reach.
TXT_CATEGORY == <<"e:robot", " ", "Telegram", " ", "boty">>
TXT_HELLO == <<"hello">>

\* Spec: the admin's modes interleaved.  Nobody has sent /start, so a
\* broadcast finds no recipients and its loop body never runs.
Texts == {BTN_PROFILE, BTN_MAILING, BTN_ADD_PRODUCT, BTN_EXIT, TXT_CATEGORY}

Next ==
  \/ \E u \in UserIds, text \in Texts, ok \in BOOLEAN :
       \/ profile(u, text, ok)
       \/ admin_mailing(u, text, ok)
       \/ process_mailing(u, text)
       \/ admin_add_product(u, text, ok)
       \/ process_product_category(u, text, ok)
       \/ process_product_name(u, text, ok)
       \/ process_product_description(u, text, ok)
       \/ process_product_price(u, text, ok)
       \/ admin_exit(u, text, ok)
       \/ unhandled(u, text)
  \/ \E t \in TaskIds, ok \in BOOLEAN :
       \/ mailing_announce(t, ok)
       \/ mailing_report(t, ok)

Spec == Init /\ [][Next]_vars

\* SpecWizard: the admin alone in the add-product wizard, with numeric and
\* non-numeric input; asked for a name or a description, the admin sends one
\* of TitleTexts
WizardTexts ==
  {BTN_ADD_PRODUCT, TXT_CATEGORY, <<"5">>, <<"0">>, <<"-", "1">>}

TitleTexts == {BTN_ADD_PRODUCT, TXT_CATEGORY, <<"5">>}

AsksTitle(u, text) ==
  state[u] \in {ST_name, ST_description} => text \in TitleTexts

NextWizard ==
  \E u \in {ADMIN_ID}, text \in WizardTexts, ok \in BOOLEAN :
    \/ AsksTitle(u, text) /\ admin_add_product(u, text, ok)
    \/ AsksTitle(u, text) /\ process_product_category(u, text, ok)
    \/ AsksTitle(u, text) /\ process_product_name(u, text, ok)
    \/ AsksTitle(u, text) /\ process_product_description(u, text, ok)
    \/ AsksTitle(u, text) /\ process_product_price(u, text, ok)
    \/ AsksTitle(u, text) /\ process_product_quantity(u, text, ok)
    \/ AsksTitle(u, text) /\ unhandled(u, text)

SpecWizard == Init /\ [][NextWizard]_vars

\* SpecMailing: users register and the admin broadcasts a text or a message
\* without text
MailingTexts == {CMD_START, BTN_MAILING, TXT_HELLO, NoneText}

NextMailing ==
  \/ \E u \in UserIds, text \in MailingTexts, ok \in BOOLEAN :
       \/ cmd_start(u, text, <<"nick">>, ok)
       \/ admin_mailing(u, text, ok)
       \/ process_mailing(u, text)
       \/ unhandled(u, text)
  \/ \E t \in TaskIds, ok \in BOOLEAN :
       \/ mailing_announce(t, ok)
       \/ mailing_send(t, ok)
       \/ mailing_sleep(t)
       \/ mailing_report(t, ok)

SpecMailing == Init /\ [][NextMailing]_vars

\* SpecBroadcast: as SpecMailing, but the admin sends nothing while a
\* broadcast of theirs is in flight; the other users send at any time
AdminWaits(u) == u = ADMIN_ID => \A t \in TaskIds : ~InFlight(t)

NextBroadcast ==
  \/ \E u \in UserIds, text \in MailingTexts, ok \in BOOLEAN :
       \/ AdminWaits(u) /\ cmd_start(u, text, <<"nick">>, ok)
       \/ AdminWaits(u) /\ admin_mailing(u, text, ok)
       \/ AdminWaits(u) /\ process_mailing(u, text)
       \/ AdminWaits(u) /\ unhandled(u, text)
  \/ \E t \in TaskIds, ok \in BOOLEAN :
       \/ mailing_announce(t, ok)
       \/ mailing_send(t, ok)
       \/ mailing_sleep(t)
       \/ mailing_report(t, ok)

SpecBroadcast == Init /\ [][NextBroadcast]_vars

\* SpecCatalog: the admin adds products, of quantity 0 too, and browses the
\* catalog; callback data is that of buttons of any message the bot has sent,
\* and data it has never sent
CatalogTexts == {BTN_BUY, BTN_ADD_PRODUCT, TXT_CATEGORY, <<"5">>, <<"0">>}

CallbackData ==
  {<<"category", "_", "1">>, <<"category", "_", "4">>, <<"category", "_", "x">>,
   <<"product", "_", "1">>, <<"product", "_", "3">>,
   <<"buy", "_", "3">>, <<"buy", "_", "9">>,
   CB_BACK_TO_CATEGORIES, CB_BACK_TO_PRODUCTS, <<"noop">>}

\* the browsing handlers read nothing of the user; the admin is the user
\* whose conversation can be in a state other than the initial one
Browsers == {ADMIN_ID}

\* asked for a name or a description, the admin sends TXT_CATEGORY
AsksCatalogTitle(u, text) ==
  state[u] \in {ST_name, ST_description} => text = TXT_CATEGORY

NextCatalog ==
  \/ \E u \in Browsers, text \in CatalogTexts, ok \in BOOLEAN :
       \/ AsksCatalogTitle(u, text) /\ buy_product(u, text, ok)
       \/ AsksCatalogTitle(u, text) /\ admin_add_product(u, text, ok)
       \/ AsksCatalogTitle(u, text) /\ process_product_category(u, text, ok)
       \/ AsksCatalogTitle(u, text) /\ process_product_name(u, text, ok)
       \/ AsksCatalogTitle(u, text) /\ process_product_description(u, text, ok)
       \/ AsksCatalogTitle(u, text) /\ process_product_price(u, text, ok)
       \/ AsksCatalogTitle(u, text) /\ process_product_quantity(u, text, ok)
       \/ AsksCatalogTitle(u, text) /\ unhandled(u, text)
  \/ \E u \in Browsers, d \in CallbackData, ok \in BOOLEAN :
       \/ show_products(u, d, ok)
       \/ show_product(u, d, ok)
       \/ buy_product_action(u, d, ok)
       \/ back_to_categories(u, d, ok)
       \/ back_to_products(u, d, ok)
       \/ unhandled_callback(u, d)

SpecCatalog == Init /\ [][NextCatalog]_vars

\* SpecAccess: every user sends the commands and the labels that change state;
\* the admin sends nothing while a broadcast of theirs is in flight
AccessTexts ==
  {CMD_START, CMD_ADMIN, BTN_MAILING, BTN_ADD_PRODUCT, BTN_CHANGE_POLICY, TXT_HELLO}

NextAccess ==
  \/ \E u \in UserIds, text \in AccessTexts, ok \in BOOLEAN :
       \/ AdminWaits(u) /\ cmd_start(u, text, <<"nick">>, ok)
       \/ AdminWaits(u) /\ cmd_admin(u, text, ok)
       \/ AdminWaits(u) /\ admin_mailing(u, text, ok)
       \/ AdminWaits(u) /\ process_mailing(u, text)
       \/ AdminWaits(u) /\ admin_add_product(u, text, ok)
       \/ AdminWaits(u) /\ process_product_category(u, text, ok)
       \/ AdminWaits(u) /\ admin_change_policy(u, text, ok)
       \/ AdminWaits(u) /\ process_new_policy(u, text, ok)
       \/ AdminWaits(u) /\ unhandled(u, text)
  \/ \E t \in TaskIds, ok \in BOOLEAN :
       \/ mailing_announce(t, ok)
       \/ mailing_send(t, ok)
       \/ mailing_sleep(t)
       \/ mailing_report(t, ok)

SpecAccess == Init /\ [][NextAccess]_vars

\* SpecRace: the admin alone in the add-product wizard, sending input the
\* handlers accept, and the next message before the answer to the last one
\* has come
RaceTexts == {BTN_ADD_PRODUCT, TXT_CATEGORY, <<"5">>}

NextRace ==
  \/ \E u \in {ADMIN_ID}, text \in RaceTexts :
       \/ AsksCatalogTitle(u, text) /\ begin_admin_add_product(u, text)
       \/ AsksCatalogTitle(u, text) /\ begin_process_product_category(u, text)
       \/ AsksCatalogTitle(u, text) /\ begin_process_product_name(u, text)
       \/ AsksCatalogTitle(u, text) /\ begin_process_product_description(u, text)
       \/ AsksCatalogTitle(u, text) /\ begin_process_product_price(u, text)
       \/ AsksCatalogTitle(u, text) /\ begin_process_product_quantity(u, text)
       \/ AsksCatalogTitle(u, text) /\ unhandled(u, text)
  \/ \E t \in TaskIds, ok \in BOOLEAN : answer_returns(t, ok)

SpecRace == Init /\ [][NextRace]_vars

\* SpecRestart: the admin changes the link and adds products, and the
\* process is restarted at any moment
RestartTexts == {BTN_CHANGE_POLICY, TXT_HELLO, BTN_ADD_PRODUCT, TXT_CATEGORY, <<"5">>}

NextRestart ==
  \/ \E u \in {ADMIN_ID}, text \in RestartTexts, ok \in BOOLEAN :
       \/ AsksCatalogTitle(u, text) /\ admin_change_policy(u, text, ok)
       \/ AsksCatalogTitle(u, text) /\ process_new_policy(u, text, ok)
       \/ AsksCatalogTitle(u, text) /\ admin_add_product(u, text, ok)
       \/ AsksCatalogTitle(u, text) /\ process_product_category(u, text, ok)
       \/ AsksCatalogTitle(u, text) /\ process_product_name(u, text, ok)
       \/ AsksCatalogTitle(u, text) /\ process_product_description(u, text, ok)
       \/ AsksCatalogTitle(u, text) /\ process_product_price(u, text, ok)
       \/ AsksCatalogTitle(u, text) /\ process_product_quantity(u, text, ok)
       \/ AsksCatalogTitle(u, text) /\ unhandled(u, text)
  \/ restart

SpecRestart == Init /\ [][NextRestart]_vars

\* SpecShop: as SpecCatalog, but the callback data is that of a button the
\* message shows
ShopData ==
  {<<"category", "_">> \o IdText(c) : c \in 1..Len(Categories)}
    \cup {<<"product", "_">> \o IdText(p) : p \in 1..(Len(TestProducts) + MaxAdded)}
    \cup {<<"buy", "_">> \o IdText(p) : p \in 1..(Len(TestProducts) + MaxAdded)}
    \cup {CB_BACK_TO_CATEGORIES, CB_BACK_TO_PRODUCTS}

NextShop ==
  \/ \E u \in Browsers, text \in CatalogTexts, ok \in BOOLEAN :
       \/ AsksCatalogTitle(u, text) /\ buy_product(u, text, ok)
       \/ AsksCatalogTitle(u, text) /\ admin_add_product(u, text, ok)
       \/ AsksCatalogTitle(u, text) /\ process_product_category(u, text, ok)
       \/ AsksCatalogTitle(u, text) /\ process_product_name(u, text, ok)
       \/ AsksCatalogTitle(u, text) /\ process_product_description(u, text, ok)
       \/ AsksCatalogTitle(u, text) /\ process_product_price(u, text, ok)
       \/ AsksCatalogTitle(u, text) /\ process_product_quantity(u, text, ok)
       \/ AsksCatalogTitle(u, text) /\ unhandled(u, text)
  \/ \E u \in Browsers, d \in ShopData, ok \in BOOLEAN :
       \/ Pressed(u, d) /\ show_products(u, d, ok)
       \/ Pressed(u, d) /\ show_product(u, d, ok)
       \/ Pressed(u, d) /\ buy_product_action(u, d, ok)
       \/ Pressed(u, d) /\ back_to_categories(u, d, ok)
       \/ Pressed(u, d) /\ back_to_products(u, d, ok)

SpecShop == Init /\ [][NextShop]_vars

\* SpecMenu: commands, the menus and the privacy-policy link
Usernames == {<<"nick">>, <<>>}

MenuTexts ==
  {CMD_START, CMD_ADMIN, BTN_PROFILE, BTN_ABOUT, BTN_STATS, BTN_CHANGE_POLICY,
   BTN_EXIT, TXT_HELLO}

NextMenu ==
  \E u \in UserIds, text \in MenuTexts, ok \in BOOLEAN :
    \/ \E username \in Usernames : cmd_start(u, text, username, ok)
    \/ cmd_admin(u, text, ok)
    \/ profile(u, text, ok)
    \/ about(u, text, ok)
    \/ admin_stats(u, text, ok)
    \/ admin_change_policy(u, text, ok)
    \/ process_new_policy(u, text, ok)
    \/ admin_exit(u, text, ok)
    \/ unhandled(u, text)

SpecMenu == Init /\ [][NextMenu]_vars

\* ------------------------------------------------------------------ claims
MenuLabels ==
  {BTN_BUY, BTN_PROFILE, BTN_ABOUT, BTN_STATS, BTN_MAILING, BTN_ADD_PRODUCT,
   BTN_CHANGE_POLICY, BTN_EXIT}

MenuHandlers ==
  {"buy_product", "profile", "about", "admin_stats", "admin_mailing",
   "admin_add_product", "admin_change_policy", "admin_exit"}

\* last' describes an update that was dispatched (not a resumed task)
Dispatched == last'.step \in {"handle", "start"}

\* input the handler of working state st accepts
ValidInput(st, text) ==
  /\ text # NoneText
  /\ text \notin MenuLabels
  /\ st = ST_category => FindCategory(StripEmojis(text, 1)) # 0
  /\ st = ST_price => ParseInt(text).ok /\ ParseInt(text).val > 0
  /\ st = ST_quantity => ParseInt(text).ok /\ ParseInt(text).val >= 0

\* the answers that ask again for the input of working state st
Reprompts(st) ==
  CASE st = ST_category -> {"prompt_category", "category_not_found"}
    [] st = ST_name -> {"prompt_name"}
    [] st = ST_description -> {"prompt_description"}
    [] st = ST_price -> {"prompt_price", "price_invalid"}
    [] st = ST_quantity -> {"prompt_quantity", "quantity_invalid"}
    [] st = ST_mailing -> {"mailing_prompt"}
    [] st = ST_new_link -> {"policy_prompt"}
    [] OTHER -> {}

\* C1: in a working state, a message that is not valid input for the state
\* (menu labels included) leaves the state as it is, is answered with the
\* state's prompt and is not handled by a menu handler.
C1_InvalidInputReprompts ==
  [][(Dispatched /\ state[last'.user] \in WorkingStates
        /\ ~ValidInput(state[last'.user], last'.text))
      => /\ state'[last'.user] = state[last'.user]
         /\ last'.reply.text \in Reprompts(state[last'.user])
         /\ last'.handler \notin MenuHandlers]_vars

\* C2: every conversation is in a defined state, and outside the add-product
\* wizard its data holds no add-product key.
C2_DataOnlyOfCurrentMode ==
  \A u \in UserIds :
    /\ state[u] \in AllStates
    /\ state[u] \notin AddProductStates => (DOMAIN data[u]) \cap AddProductKeys = {}

\* C3: from a non-initial state the exit button leads to the initial state
\* with empty data.
C3_ExitResets ==
  [][(Dispatched /\ last'.text = BTN_EXIT /\ state[last'.user] # StateNone)
      => /\ state'[last'.user] = StateNone
         /\ data'[last'.user] = EmptyData]_vars

\* no filter of a handler is satisfied: not a command, not a menu label, and
\* the conversation is in no state a state handler is registered for
MatchesNoHandler(st, text) ==
  /\ ~IsCommand(text, "/start")
  /\ ~IsCommand(text, "/admin")
  /\ text \notin MenuLabels
  /\ st = StateNone

NotPositiveInteger(text) == ~ParseInt(text).ok \/ ParseInt(text).val <= 0
NotNonNegativeInteger(text) == ~ParseInt(text).ok \/ ParseInt(text).val < 0

\* C5: when the admin's price (quantity) input is not a positive (not a
\* non-negative) integer, no product is inserted, state and data are
\* unchanged and the answer states the required form.
C5_RejectedInputChangesNothing ==
  [][(Dispatched /\ last'.user = ADMIN_ID
        /\ \/ state[ADMIN_ID] = ST_price /\ last'.handler = "process_product_price"
                /\ NotPositiveInteger(last'.text)
           \/ state[ADMIN_ID] = ST_quantity /\ last'.handler = "process_product_quantity"
                /\ NotNonNegativeInteger(last'.text))
      => /\ UNCHANGED <<products, state, data, users, settings, tasks>>
         /\ last'.reply.text =
              (IF state[ADMIN_ID] = ST_price THEN "price_invalid" ELSE "quantity_invalid")]_vars

C5_Witness ==
  /\ last.handler = "process_product_price"
  /\ last.text = <<"0">>
  /\ last.reply.text = "price_invalid"
  /\ state[ADMIN_ID] = ST_price
  /\ DOMAIN data[ADMIN_ID] = {"category_id", "name", "description"}
  /\ Len(products) = Len(TestProducts)

\* C6: no conversation has two broadcasts in flight at once.
C6_OneBroadcastInFlight ==
  \A u \in UserIds : Cardinality({t \in TaskIds : InFlight(t) /\ tasks[t].user = u}) <= 1

\* C7: a broadcast that completes after the conversation has left
\* MailingStates.text changes neither the state nor the data.
C7_StaleCompletionDiscarded ==
  [][(last'.handler = "process_mailing" /\ last'.step = "report"
        /\ state[last'.user] # ST_mailing)
      => UNCHANGED <<state, data>>]_vars

\* C8: a step taken for one user leaves the state and data of every other
\* user's conversation as they were.
C8_ConversationsIsolated ==
  [][\A v \in UserIds \ {last'.user} :
       state'[v] = state[v] /\ data'[v] = data[v]]_vars

C8_Witness ==
  /\ last.handler = "process_mailing"
  /\ last.step = "send"
  /\ last.user = ADMIN_ID
  /\ state[ADMIN_ID] = ST_mailing
  /\ \A v \in UserIds \ {ADMIN_ID} : state[v] = StateNone /\ data[v] = EmptyData
  /\ \E t \in TaskIds : \E k \in DOMAIN tasks[t].attempts :
       tasks[t].attempts[k].to # ADMIN_ID /\ tasks[t].attempts[k].ok

Recipients(task) == [k \in DOMAIN task.attempts |-> task.attempts[k].to]

\* C9: the recipients attempted are a prefix of the list read at the start,
\* each once; the counters add up to the attempts; a broadcast ends only
\* before its first attempt or after its last; when it is done every user of
\* the list was attempted and success + failed is the length of the list.
C9_BestEffortBroadcast ==
  \A t \in TaskIds :
    LET task == tasks[t]
    IN /\ Len(task.attempts) <= Len(task.users)
       /\ Recipients(task) = SubSeq(task.users, 1, Len(task.attempts))
       /\ task.success + task.failed = Len(task.attempts)
       /\ task.pc = "failed" => Len(task.attempts) \in {0, Len(task.users)}
       /\ task.pc \in {"report", "done"} =>
            /\ Recipients(task) = task.users
            /\ task.success + task.failed = Len(task.users)

C9_Witness ==
  \E t \in TaskIds :
    /\ tasks[t].pc = "done"
    /\ Len(tasks[t].users) = 2
    /\ ~tasks[t].attempts[1].ok
    /\ tasks[t].attempts[2].ok
    /\ tasks[t].success = 1 /\ tasks[t].failed = 1

\* C10: a send attempt that is not the first of its broadcast comes after a
\* delay since the attempt before it.
C10_DelayBetweenAttempts ==
  \A t \in TaskIds : (tasks[t].pc = "send" /\ tasks[t].i > 1) => tasks[t].slept

\* C11: a catalog callback (category_, product_, buy_, back_to_categories,
\* back_to_products) leaves the products, users and settings tables and every
\* conversation's FSM state unchanged, and no step of the program changes the
\* quantity of a product that exists.
C11_BrowsingChangesNothing ==
  [][/\ last'.step = "callback" => UNCHANGED <<products, users, settings, state>>
     /\ \A i \in DOMAIN products :
          i \in DOMAIN products' /\ products'[i].quantity = products[i].quantity]_vars

C11_Witness ==
  /\ last.handler = "buy_product_action"
  /\ last.reply.text = "contact_support"
  /\ ~last.raised
  /\ view[ADMIN_ID].pid = 3
  /\ state[ADMIN_ID] = ST_price
  /\ Len(products) = 3 /\ products[3].quantity = 5

C15_OnlyAdminMutates ==
  [][/\ \A v \in UserIds \ {ADMIN_ID} : state'[v] = StateNone /\ data'[v] = EmptyData
     /\ (last'.user # ADMIN_ID /\ last'.step \in {"handle", "start", "callback"})
          => UNCHANGED <<products, settings, tasks>>
     /\ \A t \in TaskIds : tasks'[t].user \in {0, ADMIN_ID}]_vars

C15_Witness ==
  /\ last.user # ADMIN_ID
  /\ last.user \in UserIds
  /\ last.handler = "admin_mailing"
  /\ last.reply = NoReply
  /\ state[last.user] = StateNone
  /\ state[ADMIN_ID] = ST_new_link
  /\ settings = TXT_HELLO
  /\ \E t \in TaskIds : tasks[t].pc = "done" /\ Len(tasks[t].users) = MaxUser

\* the step inserts a row
Inserts == Len(products') > Len(products)

\* C16: a row is inserted only by process_product_quantity called in
\* AddProductStates.quantity, with the values the data holds, and a
\* conversation in AddProductStates.quantity has category_id, name,
\* description and price in its data.
C16_InsertOnlyAfterFullPass ==
  [][/\ Inserts =>
          /\ last'.handler = "process_product_quantity"
          /\ state[last'.user] = ST_quantity
          /\ AddProductKeys \subseteq DOMAIN data[last'.user]
          /\ LET row == products'[Len(products')]
                 d == data[last'.user]
             IN /\ row.category_id = d["category_id"] /\ row.name = d["name"]
                /\ row.description = d["description"] /\ row.price = d["price"]
     /\ \A u \in UserIds :
          state'[u] = ST_quantity => AddProductKeys \subseteq DOMAIN data'[u]]_vars

\* C17: every row of products has price > 0 and quantity >= 0, and a step
\* keeps every row that exists as it is.
C17_ProductsValidAndOnlyGrow ==
  /\ [](\A i \in DOMAIN products : products[i].price > 0 /\ products[i].quantity >= 0)
  /\ [][\A i \in DOMAIN products : i \in DOMAIN products' /\ products'[i] = products[i]]_vars

C17_Witness ==
  /\ Len(products) = Len(TestProducts) + 1
  /\ products[3].quantity = 0
  /\ products[3].price = 5
  /\ last.handler = "process_product_quantity"
  /\ last.text = <<"0">>

\* C18: a broadcast that has started does not end before its report is sent,
\* and when the report is sent the admin's conversation is in the initial
\* state with empty data.
C18_BroadcastEndsWithReport ==
  [][(last'.handler = "process_mailing"
        /\ last'.step \in {"announce", "send", "sleep", "report"})
      => /\ ~last'.raised
         /\ \A t \in TaskIds : tasks'[t].pc # "failed"
         /\ last'.step = "report" =>
              state'[last'.user] = StateNone /\ data'[last'.user] = EmptyData]_vars

\* C19: /start registers its sender; a row of users, once written, stays as
\* it is, and a row appears only for the sender of a /start; /start changes
\* no conversation's state or data.
C19_StartIsIdempotent ==
  [][/\ \A x \in DOMAIN users : x \in DOMAIN users' /\ users'[x] = users[x]
     /\ (DOMAIN users') \ (DOMAIN users) \subseteq
          (IF last'.handler = "cmd_start" THEN {last'.user} ELSE {})
     /\ (last'.handler = "cmd_start" /\ last'.step = "handle")
          => /\ last'.user \in DOMAIN users'
             /\ UNCHANGED <<state, data>>]_vars

C19_Witness ==
  /\ last.handler = "cmd_start"
  /\ last.user = ADMIN_ID
  /\ DOMAIN users = UserIds
  /\ users[ADMIN_ID] = <<"nick">>
  /\ \E x \in UserIds : users[x] = <<>>
  /\ state[ADMIN_ID] = ST_new_link
  /\ settings = TXT_HELLO

\* no two rows of the table have the same name
NoDuplicateCategory ==
  \A i, j \in DOMAIN categories : categories[i].name = categories[j].name => i = j

\* C20: a restart leaves the categories table as it is, with no name twice,
\* adds the test products only to an empty products table, keeps the
\* privacy_policy value and the users; every conversation is in the initial
\* state with empty data after it.
C20_RestartKeepsDatabase ==
  /\ [](NoDuplicateCategory /\ Len(categories) = Len(Categories))
  /\ [][last'.step = "restart" =>
          /\ categories' = categories
          /\ products' = (IF Len(products) = 0 THEN TestProducts ELSE products)
          /\ settings' = settings
          /\ users' = users
          /\ \A u \in UserIds : state'[u] = StateNone /\ data'[u] = EmptyData]_vars

C20_Witness ==
  /\ last.step = "restart"
  /\ settings = TXT_HELLO
  /\ Len(products) = Len(TestProducts) + 1
  /\ categories = Categories
  /\ state[ADMIN_ID] = StateNone

\* the ids a product list shows
Listed(v) == {v.items[k] : k \in DOMAIN v.items}

\* C21: the product list a category button brings up holds exactly the
\* products of the category with quantity > 0, and the detail view and the
\* buy confirmation a user who presses only buttons of the message sees are
\* those of a product that exists with quantity > 0.
C21_SoldOutNeverOffered ==
  /\ [][(last'.handler = "show_products" /\ last'.reply.markup = "products"
           /\ ~last'.raised)
        => Listed(view'[last'.user]) =
             {products[i].id : i \in {j \in DOMAIN products :
                 /\ products[j].category_id = view'[last'.user].cat
                 /\ products[j].quantity > 0}}]_vars
  /\ [](\A u \in UserIds :
          (view[u].markup = "actions" \/ view[u].text = "contact_support")
            => /\ view[u].pid \in DOMAIN products
               /\ products[view[u].pid].quantity > 0)

C21_Witness ==
  /\ Len(products) = Len(TestProducts) + 1
  /\ products[3].quantity = 0
  /\ products[3].category_id = 4
  /\ last.handler = "show_products"
  /\ ~last.raised
  /\ view[ADMIN_ID].markup = "products"
  /\ view[ADMIN_ID].cat = 4
  /\ view[ADMIN_ID].items = <<>>

====
